---------------------------- MODULE Spec2Model ----------------------------
(***************************************************************************)
(* A model of reclass.utils.refvalue.RefValue: the lexer, the parser, the  *)
(* assembler and the public operations of one RefValue instance.           *)
(*                                                                         *)
(* A Python string is a sequence of one-character strings.  A lexer token  *)
(* is the pair <<text, tag>>, a part is the record [type, data], as in the *)
(* source.  Python indices are kept 0-based; At(s, i) reads s[i].          *)
(***************************************************************************)
EXTENDS Integers, Sequences, FiniteSets, TLC

VARIABLES
    status,         \* "new" before __init__ ran, "ok" after it returned, else the exception it raised
    error,          \* the arguments of the exception __init__ raised
    string,         \* self._string
    delim,          \* self._delim
    tokens,         \* self._tokens
    parts,          \* self._parts
    has_escapes_,   \* self._has_escapes
    refs,           \* self._refs ([none |-> TRUE] is None)
    op,             \* the public operation that ran last
    context,        \* the context of the render() that ran last; no context is held after another operation
    result,         \* what the last operation returned or raised
    calls           \* the names the last operation handed to its resolver, in order

vars == <<status, error, string, delim, tokens, parts, has_escapes_, refs,
          op, context, result, calls>>

-----------------------------------------------------------------------------
(* Bounds of the model *)

\* the number of source fragments a source string is built from
MaxUnits == 4

-----------------------------------------------------------------------------
(* Python strings and sequences *)

At(s, i) == s[i + 1]

\* s[from:to] for 0 <= from
Slice(s, from, to) ==
    LET hi == IF to > Len(s) THEN Len(s) ELSE to
    IN  IF from >= hi THEN <<>> ELSE SubSeq(s, from + 1, hi)

RECURSIVE Join(_)
\* ''.join(strs)
Join(strs) == IF strs = <<>> THEN <<>> ELSE Head(strs) \o Join(Tail(strs))

\* chars.find(pattern, start, end) with end = start + len(pattern)
Find(chars, pattern, start, end) ==
    IF Slice(chars, start, end) = pattern THEN start ELSE -1

-----------------------------------------------------------------------------
(* reclass.defaults *)

ESCAPE_CHARACTER == <<"\\">>
PARAMETER_INTERPOLATION_SENTINELS == << <<"$", "{">>, <<"}">> >>
PARAMETER_INTERPOLATION_DELIMITER == <<".">>

-----------------------------------------------------------------------------
(* Class attributes of RefValue *)

LT_ESCAPE == "ESCAPE"
LT_INTRPL_START == "INTRPL_START"
LT_INTRPL_END == "INTRPL_END"
LT_LITERAL == "LITERAL"

ESCAPABLE_NO_START == {LT_ESCAPE}
ESCAPABLE_WITH_END == {LT_ESCAPE, LT_INTRPL_START, LT_INTRPL_END}
ESCAPABLE_LT_TOKENS == {LT_ESCAPE, LT_INTRPL_START}

PT_LITERAL == 0
PT_REFERENCE == 1

TT_TEXT == 0
TT_TAG == 1

TOKEN_EXPRS_DOLLAR ==
    << <<ESCAPE_CHARACTER, LT_ESCAPE>>,
       <<<<"$">>, LT_INTRPL_START>>,
       <<At(PARAMETER_INTERPOLATION_SENTINELS, 1), LT_INTRPL_END>> >>
TOKEN_EXPRS ==
    << <<ESCAPE_CHARACTER, LT_ESCAPE>>,
       <<At(PARAMETER_INTERPOLATION_SENTINELS, 0), LT_INTRPL_START>>,
       <<At(PARAMETER_INTERPOLATION_SENTINELS, 1), LT_INTRPL_END>> >>

None == -1

-----------------------------------------------------------------------------
(* RefValue._lex *)

RECURSIVE MatchFrom(_, _, _)
\* the for loop over TOKEN_EXPRS: the 0-based index of the first expression
\* whose pattern is found at pos, or -1 when the loop ends without a break
MatchFrom(chars, pos, k) ==
    IF k >= Len(TOKEN_EXPRS) THEN -1
    ELSE LET pattern == At(At(TOKEN_EXPRS, k), 0)
             tag == At(At(TOKEN_EXPRS, k), 1)
             match_start == Find(chars, pattern, pos, pos + Len(pattern))
         IN  IF match_start >= 0 /\ tag # "" THEN k
             ELSE MatchFrom(chars, pos, k + 1)

LiteralTokenShort(chars, from, to) == <<Slice(chars, from + 1, to), LT_LITERAL>>
LiteralToken(chars, from, to) == <<Slice(chars, from, to), LT_LITERAL>>

RECURSIVE LexLoop(_, _, _, _)
\* the while loop of _lex and the flush after it
LexLoop(chars, pos, toks, token_literal_start) ==
    IF pos >= Len(chars)
    THEN IF token_literal_start # None
         THEN Append(toks, LiteralToken(chars, token_literal_start, Len(chars)))
         ELSE toks
    ELSE LET k == MatchFrom(chars, pos, 0)
         IN  IF k >= 0
             THEN LET pattern == At(At(TOKEN_EXPRS, k), 0)
                      tag == At(At(TOKEN_EXPRS, k), 1)
                      match_start == pos
                      match_end == match_start + Len(pattern)
                      text == Slice(chars, match_start, match_end)
                      flushed == IF token_literal_start # None
                                 THEN Append(toks, LiteralToken(chars, token_literal_start, match_start))
                                 ELSE toks
                  IN  LexLoop(chars, match_end, Append(flushed, <<text, tag>>), None)
             ELSE IF token_literal_start = None
                  THEN LexLoop(chars, pos, toks, pos)
                  ELSE LexLoop(chars, pos + 1, toks, token_literal_start)

Lex(chars) == LexLoop(chars, 0, <<>>, None)

-----------------------------------------------------------------------------
(* RefValue._parse_interpolation and RefValue._parse *)

Text(token) == At(token, TT_TEXT)
Tag(token) == At(token, TT_TAG)

NoError == [name |-> <<>>, expected |-> <<>>]

\* tokens[index + 1] == self.LT_INTRPL_END compares the (text, tag) tuple with
\* a str, and in Python a tuple never equals a str
TupleEqualsStr(token, s) == FALSE

RECURSIVE ParseInterpolation(_, _, _)
\* it is the index token_iterator yields next.  Returns the reference name and
\* the iterator's position, or the exception raised.
ParseInterpolation(toks, it, nameparts) ==
    IF it >= Len(toks)
    THEN \* StopIteration
         [raised |-> "IncompleteInterpolationError",
          error |-> [name |-> Join(nameparts),
                     expected |-> At(PARAMETER_INTERPOLATION_SENTINELS, 1)],
          name |-> <<>>, it |-> it]
    ELSE LET index == it
             token == At(toks, it)
         IN  IF Tag(token) = LT_INTRPL_END
             THEN IF Len(nameparts) = 0
                  THEN [raised |-> "InterpolationError", error |-> NoError,
                        name |-> <<>>, it |-> it + 1]
                  ELSE [raised |-> "", error |-> NoError,
                        name |-> Join(nameparts), it |-> it + 1]
             ELSE IF Tag(token) = LT_ESCAPE /\ index + 1 >= Len(toks)
             THEN \* tokens[index + 1] is out of range
                  [raised |-> "IndexError", error |-> NoError,
                   name |-> <<>>, it |-> it + 1]
             ELSE IF Tag(token) = LT_ESCAPE /\ TupleEqualsStr(At(toks, index + 1), LT_INTRPL_END)
             THEN ParseInterpolation(toks, it + 2,
                                     Append(nameparts, Text(At(toks, index + 1))))
             ELSE ParseInterpolation(toks, it + 1, Append(nameparts, Text(token)))

Literal(text) == [type |-> PT_LITERAL, data |-> text]
Reference(name) == [type |-> PT_REFERENCE, data |-> name]

RECURSIVE ParseLoop(_, _, _, _)
\* the for loop of _parse; index is the index token_iterator yields next
ParseLoop(toks, index, ps, has_esc) ==
    LET tokens_last_index == Len(toks) - 1
    IN  IF index > tokens_last_index
        THEN [raised |-> "", error |-> NoError, parts |-> ps, has_escapes |-> has_esc]
        ELSE LET token == At(toks, index)
             IN  IF Tag(token) = LT_LITERAL
                 THEN ParseLoop(toks, index + 1, Append(ps, Literal(Text(token))), has_esc)
                 ELSE IF Tag(token) = LT_ESCAPE
                 THEN IF index = tokens_last_index
                      THEN ParseLoop(toks, index + 1, Append(ps, Literal(Text(token))), has_esc)
                      ELSE IF /\ index + 1 <= tokens_last_index
                              /\ Tag(At(toks, index + 1)) \notin ESCAPABLE_LT_TOKENS
                      THEN ParseLoop(toks, index + 1, Append(ps, Literal(Text(token))), has_esc)
                      ELSE IF /\ index + 2 <= tokens_last_index
                              /\ Tag(At(toks, index + 1)) = LT_ESCAPE
                              /\ Tag(At(toks, index + 2)) \notin ESCAPABLE_LT_TOKENS
                      THEN ParseLoop(toks, index + 2,
                                     ps \o <<Literal(Text(token)),
                                             Literal(Text(At(toks, index + 1)))>>,
                                     has_esc)
                      ELSE ParseLoop(toks, index + 2,
                                     Append(ps, Literal(Text(At(toks, index + 1)))),
                                     TRUE)
                 ELSE IF Tag(token) = LT_INTRPL_END
                 THEN ParseLoop(toks, index + 1, Append(ps, Literal(Text(token))), has_esc)
                 ELSE \* LT_INTRPL_START
                      LET r == ParseInterpolation(toks, index + 1, <<>>)
                      IN  IF r.raised # ""
                          THEN [raised |-> r.raised, error |-> r.error,
                                parts |-> ps, has_escapes |-> has_esc]
                          ELSE ParseLoop(toks, r.it, Append(ps, Reference(r.name)), has_esc)

Parse(toks) == ParseLoop(toks, 0, <<>>, FALSE)

-----------------------------------------------------------------------------
(* Python values: what a context holds and what an operation returns *)

NoValue == [type |-> "none", n |-> 0, s |-> <<>>, l |-> <<>>, m |-> <<>>]
IntV(n) == [type |-> "int", n |-> n, s |-> <<>>, l |-> <<>>, m |-> <<>>]
BoolV(b) == [type |-> "bool", n |-> IF b THEN 1 ELSE 0, s |-> <<>>, l |-> <<>>, m |-> <<>>]
StrV(s) == [type |-> "str", n |-> 0, s |-> s, l |-> <<>>, m |-> <<>>]
ListV(l) == [type |-> "list", n |-> 0, s |-> <<>>, l |-> l, m |-> <<>>]
\* m is the sequence of the dict's <<key, value>> items
DictV(m) == [type |-> "dict", n |-> 0, s |-> <<>>, l |-> <<>>, m |-> m]

Digits == <<"0", "1", "2", "3", "4", "5", "6", "7", "8", "9">>

RECURSIVE IntToStr(_)
IntToStr(n) ==
    IF n < 0 THEN <<"-">> \o IntToStr(-n)
    ELSE IF n < 10 THEN <<Digits[n + 1]>>
    ELSE IntToStr(n \div 10) \o <<Digits[(n % 10) + 1]>>

RECURSIVE EscapeBackslashes(_)
EscapeBackslashes(s) ==
    IF s = <<>> THEN <<>>
    ELSE (IF Head(s) = "\\" THEN <<"\\", "\\">> ELSE <<Head(s)>>)
         \o EscapeBackslashes(Tail(s))

\* repr() of a str without quote characters
StrRepr(s) == <<"'">> \o EscapeBackslashes(s) \o <<"'">>

RECURSIVE Repr(_)
RECURSIVE JoinReprs(_)
RECURSIVE JoinItems(_)
JoinReprs(l) ==
    IF l = <<>> THEN <<>>
    ELSE IF Len(l) = 1 THEN Repr(l[1])
    ELSE Repr(l[1]) \o <<",", " ">> \o JoinReprs(Tail(l))
JoinItems(m) ==
    IF m = <<>> THEN <<>>
    ELSE LET item == StrRepr(m[1][1]) \o <<":", " ">> \o Repr(m[1][2])
         IN  IF Len(m) = 1 THEN item
             ELSE item \o <<",", " ">> \o JoinItems(Tail(m))
\* repr(value), the %r conversion
Repr(v) ==
    CASE v.type = "int" -> IntToStr(v.n)
      [] v.type = "bool" -> IF v.n = 1 THEN <<"T", "r", "u", "e">>
                            ELSE <<"F", "a", "l", "s", "e">>
      [] v.type = "str" -> StrRepr(v.s)
      [] v.type = "list" -> <<"[">> \o JoinReprs(v.l) \o <<"]">>
      [] v.type = "dict" -> <<"{">> \o JoinItems(v.m) \o <<"}">>
      [] OTHER -> <<"N", "o", "n", "e">>

\* str(value)
Str(v) == IF v.type = "str" THEN v.s ELSE Repr(v)

-----------------------------------------------------------------------------
(* reclass.utils.dictpath.DictPath: the nested-path lookup *)

RECURSIVE SplitString(_, _, _)
\* the segments of s between occurrences of the delimiter d; cur is the
\* segment being collected
SplitString(s, d, cur) ==
    IF s = <<>> THEN <<cur>>
    ELSE IF Len(d) > 0 /\ Slice(s, 0, Len(d)) = d
    THEN <<cur>> \o SplitString(Slice(s, Len(d), Len(s)), d, <<>>)
    ELSE SplitString(Tail(s), d, Append(cur, Head(s)))

DictPath(d, contents) == SplitString(contents, d, <<>>)

RECURSIVE GetValue(_, _)
\* path.get_value(base): the value, or KeyError when a segment is absent
GetValue(path, base) ==
    IF path = <<>> THEN [found |-> TRUE, value |-> base]
    ELSE IF /\ base.type = "dict"
            /\ \E i \in 1..Len(base.m) : base.m[i][1] = Head(path)
    THEN LET i == CHOOSE i \in 1..Len(base.m) : base.m[i][1] = Head(path)
         IN  GetValue(Tail(path), base.m[i][2])
    ELSE [found |-> FALSE, value |-> NoValue]

-----------------------------------------------------------------------------
(* RefValue: _resolve, the accessors, _assemble *)

Returned(v) == [raised |-> "", name |-> <<>>, value |-> v]
Raised(exc, name) == [raised |-> exc, name |-> name, value |-> NoValue]

RECURSIVE LastOf(_)
LastOf(path) == IF Len(path) <= 1 THEN Join(path) ELSE LastOf(Tail(path))

\* the names of the missing-variable error
ErrorNameSegment(ref, d) == LastOf(DictPath(d, ref))
ErrorName(ref, d) == ref

Resolve(self, ref, ctx) ==
    LET path == DictPath(self.delim, ref)
        r == GetValue(path, ctx)
    IN  IF r.found THEN Returned(r.value)
        ELSE Raised("UndefinedVariableError", ErrorName(ref, self.delim))

RECURSIVE RefNamesUnique(_)
RefNamesUnique(ps) ==
    IF ps = <<>> THEN <<>>
    ELSE LET rest == RefNamesUnique(SubSeq(ps, 1, Len(ps) - 1))
             p == ps[Len(ps)]
         IN  IF p.type = PT_REFERENCE /\ \A i \in 1..Len(rest) : rest[i] # p.data
             THEN Append(rest, p.data) ELSE rest

RECURSIVE RefNames(_)
\* [part['data'] for part in self._parts if part['type'] == self.PT_REFERENCE]
RefNames(ps) ==
    IF ps = <<>> THEN <<>>
    ELSE (IF Head(ps).type = PT_REFERENCE THEN <<Head(ps).data>> ELSE <<>>)
         \o RefNames(Tail(ps))

NoRefs == [none |-> TRUE, list |-> <<>>]

\* get_references(): self with _refs memoized; the list returned is self.refs.list
GetReferences(self) ==
    IF self.refs.none
    THEN [self EXCEPT !.refs = [none |-> FALSE, list |-> RefNames(self.parts)]]
    ELSE self

HasReferences(self) == Len(GetReferences(self).refs.list) > 0

HasEscapes(self) == self.has_escapes

\* the two resolvers _assemble is given
Resolver(ctx) == [kind |-> "resolve", context |-> ctx]
DoNotResolve == [kind |-> "do_not_resolve", context |-> NoValue]

ApplyResolver(self, resolver, s) ==
    IF resolver.kind = "resolve"
    THEN Resolve(self, s, resolver.context)
    ELSE \* s.join(PARAMETER_INTERPOLATION_SENTINELS)
         Returned(StrV(At(PARAMETER_INTERPOLATION_SENTINELS, 0) \o s
                       \o At(PARAMETER_INTERPOLATION_SENTINELS, 1)))

RECURSIVE AssembleLoop(_, _, _, _, _)
\* the for loop of _assemble over the parts from index i (1-based) on
AssembleLoop(self, resolver, i, ret, called) ==
    IF i > Len(self.parts)
    THEN [result |-> Returned(StrV(ret)), calls |-> called]
    ELSE LET part == self.parts[i]
         IN  IF part.type = PT_LITERAL
             THEN AssembleLoop(self, resolver, i + 1, ret \o part.data, called)
             ELSE LET r == ApplyResolver(self, resolver, part.data)
                  IN  IF r.raised # ""
                      THEN [result |-> r, calls |-> Append(called, part.data)]
                      ELSE AssembleLoop(self, resolver, i + 1, ret \o Str(r.value),
                                        Append(called, part.data))

\* _assemble without the single-reference case
AssembleAlwaysStr(self, resolver) ==
    IF ~HasReferences(self) /\ ~HasEscapes(self)
    THEN [result |-> Returned(StrV(self.string)), calls |-> <<>>]
    ELSE AssembleLoop(self, resolver, 1, <<>>, <<>>)

Assemble(self, resolver) ==
    IF ~HasReferences(self) /\ ~HasEscapes(self)
    THEN [result |-> Returned(StrV(self.string)), calls |-> <<>>]
    ELSE IF Len(self.parts) = 1 /\ HasReferences(self)
    THEN [result |-> ApplyResolver(self, resolver, self.parts[1].data),
          calls |-> <<self.parts[1].data>>]
    ELSE AssembleLoop(self, resolver, 1, <<>>, <<>>)

\* 'RefValue(%r, %r)' % (self._assemble(do_not_resolve), self._delim)
ReprOf(self) ==
    <<"R", "e", "f", "V", "a", "l", "u", "e", "(">>
    \o Repr(Assemble(self, DoNotResolve).result.value)
    \o <<",", " ">> \o Repr(StrV(self.delim)) \o <<")">>

-----------------------------------------------------------------------------
(* The inputs: source strings and contexts *)

\* the fragments source strings are built from
Units ==
    << <<"\\">>, <<"$", "{">>, <<"}">>, <<"$">>, <<"a">>,
       <<"$", "{", "a", "}">>, <<"$", "{", "a", ".", "b", "}">> >>

RECURSIVE SourcesOf(_)
\* the strings made of at most n fragments
SourcesOf(n) ==
    IF n = 0 THEN {<<>>}
    ELSE LET shorter == SourcesOf(n - 1)
         IN  shorter \cup {s \o Units[u] : s \in shorter, u \in 1..Len(Units)}

Sources == SourcesOf(MaxUnits)

\* the contexts render() is given
Contexts ==
    << DictV(<<>>),
       DictV(<< <<<<"a">>, IntV(42)>> >>),
       DictV(<< <<<<"a">>, DictV(<< <<<<"b">>, StrV(<<"y">>)>> >>)>>,
                <<<<"a", "\\">>, ListV(<<IntV(1), IntV(2)>>)>> >>) >>

-----------------------------------------------------------------------------
(* The state machine of one RefValue *)

Self == [string |-> string, delim |-> delim, parts |-> parts,
         has_escapes |-> has_escapes_, refs |-> refs]

\* __init__, lines 95-98: the fields as set before lexing
Init ==
    /\ status = "new"
    /\ error = NoError
    /\ string \in Sources
    /\ delim = PARAMETER_INTERPOLATION_DELIMITER
    /\ tokens = <<>>
    /\ parts = <<>>
    /\ has_escapes_ = FALSE
    /\ refs = NoRefs
    /\ op = "none"
    /\ context = NoValue
    /\ result = Returned(NoValue)
    /\ calls = <<>>

\* __init__, lines 99-101: lex, parse, memoize the references
Construct ==
    /\ status = "new"
    /\ LET toks == Lex(string)
           r == Parse(toks)
       IN  /\ tokens' = toks
           /\ has_escapes_' = r.has_escapes
           /\ IF r.raised # ""
              THEN /\ status' = r.raised
                   /\ error' = r.error
                   /\ UNCHANGED <<parts, refs>>
              ELSE /\ status' = "ok"
                   /\ error' = NoError
                   /\ parts' = r.parts
                   /\ refs' = GetReferences([Self EXCEPT !.parts = r.parts]).refs
    /\ op' = "construct"
    /\ UNCHANGED <<string, delim, context, result, calls>>

Render(ctx) ==
    /\ status = "ok"
    /\ LET r == Assemble(Self, Resolver(ctx))
       IN  /\ result' = r.result
           /\ calls' = r.calls
    /\ refs' = GetReferences(Self).refs
    /\ op' = "render"
    /\ context' = ctx
    /\ UNCHANGED <<status, error, string, delim, tokens, parts, has_escapes_>>

ReprCall ==
    /\ status = "ok"
    /\ result' = Returned(StrV(ReprOf(Self)))
    /\ calls' = Assemble(Self, DoNotResolve).calls
    /\ refs' = GetReferences(Self).refs
    /\ op' = "repr"
    /\ context' = NoValue
    /\ UNCHANGED <<status, error, string, delim, tokens, parts, has_escapes_>>

HasEscapesCall ==
    /\ status = "ok"
    /\ result' = Returned(BoolV(HasEscapes(Self)))
    /\ calls' = <<>>
    /\ op' = "has_escapes"
    /\ context' = NoValue
    /\ UNCHANGED <<status, error, string, delim, tokens, parts, has_escapes_, refs>>

HasReferencesCall ==
    /\ status = "ok"
    /\ result' = Returned(BoolV(HasReferences(Self)))
    /\ calls' = <<>>
    /\ refs' = GetReferences(Self).refs
    /\ op' = "has_references"
    /\ context' = NoValue
    /\ UNCHANGED <<status, error, string, delim, tokens, parts, has_escapes_>>

StrList(names) == ListV([i \in 1..Len(names) |-> StrV(names[i])])

GetReferencesCall ==
    /\ status = "ok"
    /\ result' = Returned(StrList(GetReferences(Self).refs.list))
    /\ calls' = <<>>
    /\ refs' = GetReferences(Self).refs
    /\ op' = "get_references"
    /\ context' = NoValue
    /\ UNCHANGED <<status, error, string, delim, tokens, parts, has_escapes_>>

Next ==
    \/ Construct
    \/ \E i \in 1..Len(Contexts) : Render(Contexts[i])
    \/ ReprCall
    \/ HasEscapesCall
    \/ HasReferencesCall
    \/ GetReferencesCall

Spec == Init /\ [][Next]_vars

-----------------------------------------------------------------------------
(* Vocabulary of the properties: shapes of source strings *)

ESC == "\\"

\* the interpolation-start marker stands at position k (1-based) of s
StartAt(s, k) == k + 1 <= Len(s) /\ s[k] = "$" /\ s[k + 1] = "{"

NoEscapeIn(s) == \A k \in 1..Len(s) : s[k] # ESC
NoStartIn(s) == \A k \in 1..Len(s) : ~StartAt(s, k)
NoEndIn(s) == \A k \in 1..Len(s) : s[k] # "}"

\* ordinary text: no escape character, no start marker, no end marker
Plain(s) == NoEscapeIn(s) /\ NoStartIn(s) /\ NoEndIn(s)

Prefix(s, k) == SubSeq(s, 1, k)
Suffix(s, k) == SubSeq(s, k, Len(s))

\* s begins with an escapable token: an escape or a start marker
StartsEscapable(s) == s # <<>> /\ (s[1] = ESC \/ StartAt(s, 1))

\* the text of the first token of a string that begins with an escapable token
FirstToken(s) == IF s[1] = ESC THEN <<ESC>> ELSE <<"$", "{">>

RECURSIVE TrailingEscapes(_)
\* the length of the run of escape characters s ends with
TrailingEscapes(s) ==
    IF s = <<>> \/ s[Len(s)] # ESC THEN 0
    ELSE 1 + TrailingEscapes(Prefix(s, Len(s) - 1))

\* what constructing a RefValue from s yields
Constructed(s) == Parse(Lex(s))

\* position k of s is reached by the top-level loop of the parser as the
\* current token: everything before it parses on its own, and the escape
\* characters right before it pair up
TopLevelAt(s, k) ==
    /\ Constructed(Prefix(s, k - 1)).raised = ""
    /\ TrailingEscapes(Prefix(s, k - 1)) % 2 = 0

\* ps ends with the parts tail
EndsWith(ps, tail) ==
    /\ Len(tail) <= Len(ps)
    /\ SubSeq(ps, Len(ps) - Len(tail) + 1, Len(ps)) = tail

\* s is a start marker, a body without end marker, an end marker
IsSingleReference(s) ==
    /\ Len(s) >= 4
    /\ StartAt(s, 1)
    /\ s[Len(s)] = "}"
    /\ NoEndIn(SubSeq(s, 3, Len(s) - 1))

Body(s) == SubSeq(s, 3, Len(s) - 1)

Lookup(name, ctx) == GetValue(DictPath(delim, name), ctx)

-----------------------------------------------------------------------------
(* C1 *)

\* C1: a source that is exactly one reference renders to the value the lookup
\* yields for the name, with its type; any other source that renders, renders
\* to a str.
C1_TypePreservation ==
    (status = "ok" /\ op = "render") =>
        /\ IsSingleReference(string) =>
              /\ calls = <<Body(string)>>
              /\ Lookup(Body(string), context).found =>
                    result = Returned(Lookup(Body(string), context).value)
        /\ (~IsSingleReference(string) /\ result.raised = "") =>
              result.value.type = "str"

C1_Witness ==
    /\ status = "ok" /\ op = "render"
    /\ IsSingleReference(string)
    /\ result.raised = ""
    /\ result.value = IntV(42)

-----------------------------------------------------------------------------
(* C2 *)

\* the literal text of an escaped reference: the source without its first character
EscapedReferenceRenders ==
    (/\ status = "ok" /\ op = "render"
     /\ Len(string) >= 5 /\ string[1] = ESC
     /\ IsSingleReference(Tail(string)) /\ Plain(Body(Tail(string)))) =>
        /\ result = Returned(StrV(Tail(string)))
        /\ calls = <<>>

\* C2 as stated: every escape followed by an escapable token is dropped, the
\* token after it is emitted as literal text, and has_escapes() becomes true.
C2_EveryEscapeSuppresses ==
    /\ status = "ok" =>
          \A k \in 1..Len(string) :
              (string[k] = ESC /\ StartsEscapable(Suffix(string, k + 1))) =>
                  LET post == Suffix(string, k + 1)
                      tok == FirstToken(post)
                      rest == Suffix(post, Len(tok) + 1)
                  IN  /\ has_escapes_
                      /\ Constructed(rest).raised = ""
                      /\ EndsWith(parts, <<Literal(tok)>> \o Constructed(rest).parts)
    /\ EscapedReferenceRenders

\* C2, amended: an escape the top-level loop reaches that is followed by an
\* escapable token is dropped, the next token's text is emitted as literal and
\* has_escapes() is true, unless the next token is an escape followed by a
\* further token that is not escapable.
C2_EscapeSuppression ==
    /\ status = "ok" =>
          \A k \in 1..Len(string) :
              (/\ string[k] = ESC
               /\ StartsEscapable(Suffix(string, k + 1))
               /\ TopLevelAt(string, k)) =>
                  LET pre == Prefix(string, k - 1)
                      post == Suffix(string, k + 1)
                      tok == FirstToken(post)
                      rest == Suffix(post, Len(tok) + 1)
                      both_verbatim == tok = <<ESC>> /\ rest # <<>> /\ ~StartsEscapable(rest)
                  IN  IF both_verbatim
                      THEN parts = Constructed(pre).parts
                                   \o <<Literal(<<ESC>>), Literal(<<ESC>>)>>
                                   \o Constructed(rest).parts
                      ELSE /\ has_escapes_
                           /\ parts = Constructed(pre).parts \o <<Literal(tok)>>
                                      \o Constructed(rest).parts
    /\ EscapedReferenceRenders

C2_Witness ==
    /\ status = "ok" /\ op = "render"
    /\ string = <<ESC, "$", "{", "a", "}">>
    /\ context = Contexts[1]
    /\ has_escapes_
    /\ result = Returned(StrV(<<"$", "{", "a", "}">>))

-----------------------------------------------------------------------------
(* C3 *)

\* C3: literal text, two escape characters and a reference render to the
\* literal text, both escape characters and the str of the value.
C3_DoubleEscapedReference ==
    \A k \in 1..Len(string) :
        (/\ status = "ok" /\ op = "render"
         /\ Plain(Prefix(string, k - 1))
         /\ k + 1 <= Len(string) /\ string[k] = ESC /\ string[k + 1] = ESC
         /\ IsSingleReference(Suffix(string, k + 2))
         /\ Plain(Body(Suffix(string, k + 2)))
         /\ Lookup(Body(Suffix(string, k + 2)), context).found) =>
            result = Returned(StrV(Prefix(string, k - 1) \o <<ESC, ESC>>
                        \o Str(Lookup(Body(Suffix(string, k + 2)), context).value)))

-----------------------------------------------------------------------------
(* C4 *)

RECURSIVE EscapesPrecedeText(_)
\* every run of escape characters of s is one or two long and is followed by
\* a character of ordinary text
EscapesPrecedeText(s) ==
    IF s = <<>> THEN TRUE
    ELSE IF s[1] # ESC THEN EscapesPrecedeText(Tail(s))
    ELSE IF Len(s) >= 2 /\ s[2] \notin {ESC, "}"} THEN EscapesPrecedeText(Suffix(s, 3))
    ELSE IF Len(s) >= 3 /\ s[2] = ESC /\ s[3] \notin {ESC, "}"}
    THEN EscapesPrecedeText(Suffix(s, 4))
    ELSE FALSE

\* a source without start marker whose escapes precede ordinary text renders to itself
EscapedTextRendersUnchanged ==
    (/\ status = "ok" /\ op = "render"
     /\ NoStartIn(string) /\ EscapesPrecedeText(string)) =>
        result = Returned(StrV(string))

\* C4 as stated: every escape character with nothing to escape after it is
\* emitted verbatim and the token after it is processed normally.
C4_EveryLoneEscapeLiteral ==
    /\ status = "ok" =>
          \A k \in 1..Len(string) :
              (string[k] = ESC /\ ~StartsEscapable(Suffix(string, k + 1))) =>
                  /\ Constructed(Suffix(string, k + 1)).raised = ""
                  /\ EndsWith(parts, <<Literal(<<ESC>>)>>
                                     \o Constructed(Suffix(string, k + 1)).parts)
    /\ EscapedTextRendersUnchanged

\* C4, amended: every escape character outside a reference body with nothing
\* to escape after it is emitted verbatim and the token after it is processed
\* normally.
C4_LoneEscapeLiteral ==
    /\ status = "ok" =>
          \A k \in 1..Len(string) :
              (/\ string[k] = ESC
               /\ ~StartsEscapable(Suffix(string, k + 1))
               /\ Constructed(Prefix(string, k - 1)).raised = "") =>
                  /\ Constructed(Suffix(string, k + 1)).raised = ""
                  /\ EndsWith(parts, <<Literal(<<ESC>>)>>
                                     \o Constructed(Suffix(string, k + 1)).parts)
    /\ EscapedTextRendersUnchanged

C4_Witness ==
    /\ status = "ok" /\ op = "render"
    /\ string = <<ESC, ESC, "a", ESC>>
    /\ parts = <<Literal(<<ESC>>), Literal(<<ESC>>), Literal(<<"a">>), Literal(<<ESC>>)>>
    /\ result = Returned(StrV(string))

-----------------------------------------------------------------------------
(* C5 *)

\* C5: a start marker the parser reaches with no end marker after it makes
\* construction fail with the incomplete-interpolation error, carrying the
\* text after the marker and the end sentinel.
C5_IncompleteInterpolation ==
    status # "new" =>
        \A k \in 1..Len(string) :
            (/\ StartAt(string, k)
             /\ TopLevelAt(string, k)
             /\ NoEndIn(Suffix(string, k + 2))) =>
                /\ status = "IncompleteInterpolationError"
                /\ error = [name |-> Suffix(string, k + 2), expected |-> <<"}">>]

-----------------------------------------------------------------------------
(* C6 *)

RECURSIVE ScanReferences(_)
\* for a source without escape character: the reference names between each
\* start marker and the end marker after it, and whether each is complete and
\* not empty
ScanReferences(s) ==
    IF s = <<>> THEN [ok |-> TRUE, names |-> <<>>]
    ELSE IF ~StartAt(s, 1) THEN ScanReferences(Tail(s))
    ELSE LET body == Suffix(s, 3)
         IN  IF NoEndIn(body) \/ body[1] = "}" THEN [ok |-> FALSE, names |-> <<>>]
             ELSE LET e == CHOOSE e \in 1..Len(body) :
                                /\ body[e] = "}"
                                /\ NoEndIn(Prefix(body, e - 1))
                      r == ScanReferences(Suffix(body, e + 1))
                  IN  [ok |-> r.ok, names |-> <<Prefix(body, e - 1)>> \o r.names]

Missing(names, ctx) == {i \in 1..Len(names) : ~Lookup(names[i], ctx).found}

FirstMissing(names, ctx) ==
    names[CHOOSE i \in Missing(names, ctx) : \A j \in Missing(names, ctx) : i <= j]

\* render() raises exactly when a reference is not found, with the full name
\* of the first such reference and no value
RenderErrors ==
    (status = "ok" /\ op = "render") =>
        /\ result.raised \in {"", "UndefinedVariableError"}
        /\ result.raised = "UndefinedVariableError"
              <=> Missing(RefNames(parts), context) # {}
        /\ result.raised = "UndefinedVariableError" =>
              /\ result.name = FirstMissing(RefNames(parts), context)
              /\ result.value = NoValue

\* syntactically valid references construct, whatever contexts exist
ValidConstructs ==
    (status # "new" /\ NoEscapeIn(string) /\ ScanReferences(string).ok) =>
        status = "ok"

\* a render that follows a failed one succeeds when the context defines the names
LaterRenderSucceeds ==
    (/\ status = "ok" /\ op = "render" /\ result.raised # ""
     /\ op' = "render"
     /\ Missing(RefNames(parts), context') = {}) => result'.raised = ""

\* C6: references are resolved at render time only; render() fails with the
\* undefined-variable error exactly when the lookup reports not-found, naming
\* the whole reference, and a later render with the name defined succeeds.
C6_ErrorTiming ==
    /\ [](RenderErrors /\ ValidConstructs)
    /\ [][LaterRenderSucceeds]_vars

C6_Witness ==
    /\ status = "ok" /\ op = "render"
    /\ result = Raised("UndefinedVariableError", <<"a", ".", "b">>)
    /\ Len(parts) > 1
    /\ context = Contexts[2]

-----------------------------------------------------------------------------
(* C7 *)

\* C7: a source of ordinary text lexes to literal text only, has neither
\* references nor escapes, and renders to itself without a lookup.
C7_Identity ==
    (status # "new" /\ Plain(string)) =>
        /\ status = "ok"
        /\ \A i \in 1..Len(tokens) : Tag(tokens[i]) = LT_LITERAL
        /\ Join([i \in 1..Len(tokens) |-> Text(tokens[i])]) = string
        /\ op \in {"has_references", "has_escapes"} => result = Returned(BoolV(FALSE))
        /\ op = "render" => (result = Returned(StrV(string)) /\ calls = <<>>)

C7_Witness ==
    /\ status = "ok" /\ op = "render"
    /\ string = <<"$", "a", "$">>
    /\ result = Returned(StrV(string))

-----------------------------------------------------------------------------
(* C8 *)

\* the memoized list holds the reference names in source order, once per occurrence
ReferencesInOrder ==
    status = "ok" =>
        /\ ~refs.none
        /\ refs.list = RefNames(parts)
        /\ NoEscapeIn(string) => refs.list = ScanReferences(string).names
        /\ op = "get_references" => result = Returned(StrList(refs.list))

\* no operation on a constructed RefValue changes its parts, flag or list
Immutable ==
    status = "ok" => UNCHANGED <<string, delim, parts, has_escapes_, refs>>

\* C8: get_references() returns the names of the references in source order,
\* duplicates kept, the same on every call; no operation changes the parts,
\* the has_escapes flag or the memoized list.
C8_References ==
    /\ []ReferencesInOrder
    /\ [][Immutable]_vars

C8_Witness ==
    /\ status = "ok" /\ op = "get_references"
    /\ result = Returned(StrList(<< <<"a", ".", "b">>, <<"a">>, <<"a">> >>))

-----------------------------------------------------------------------------
(* C9 *)

\* C9: inside a reference, an escape followed by an end marker puts the end
\* marker into the name, and the reference ends at the next end marker.
C9_EscapedEndMarker ==
    status # "new" =>
        \A k \in 3..Len(string) - 2 :
            (/\ StartAt(string, 1)
             /\ Plain(SubSeq(string, 3, k - 1))
             /\ string[k] = ESC /\ string[k + 1] = "}"
             /\ Plain(SubSeq(string, k + 2, Len(string) - 1))
             /\ string[Len(string)] = "}") =>
                /\ status = "ok"
                /\ parts = <<Reference(SubSeq(string, 3, k - 1) \o <<"}">>
                                       \o SubSeq(string, k + 2, Len(string) - 1))>>

-----------------------------------------------------------------------------
(* C10 *)

RECURSIVE Rewrapped(_)
\* the literal texts and the re-wrapped reference names, concatenated
Rewrapped(ps) ==
    IF ps = <<>> THEN <<>>
    ELSE (IF Head(ps).type = PT_LITERAL THEN Head(ps).data
          ELSE <<"$", "{">> \o Head(ps).data \o <<"}">>)
         \o Rewrapped(Tail(ps))

RECURSIVE EscapesRemoved(_, _)
\* out is src with some of its escape characters removed
EscapesRemoved(out, src) ==
    IF src = <<>> THEN out = <<>>
    ELSE \/ out # <<>> /\ Head(out) = Head(src) /\ EscapesRemoved(Tail(out), Tail(src))
         \/ Head(src) = ESC /\ EscapesRemoved(out, Tail(src))

\* C10: the parts, concatenated with the references re-wrapped, are the source
\* without the dropped escape characters, and are the source itself when
\* has_escapes() is false; this is what the redisplay assembles.
C10_PartsReproduceSource ==
    status = "ok" =>
        /\ EscapesRemoved(Rewrapped(parts), string)
        /\ ~has_escapes_ => Rewrapped(parts) = string
        /\ has_escapes_ => Len(Rewrapped(parts)) < Len(string)
        /\ Assemble(Self, DoNotResolve).result = Returned(StrV(Rewrapped(parts)))
        /\ op = "repr" =>
              result = Returned(StrV(<<"R", "e", "f", "V", "a", "l", "u", "e", "(">>
                                     \o StrRepr(Rewrapped(parts))
                                     \o <<",", " ", "'", ".", "'", ")">>))

C10_Witness ==
    /\ status = "ok" /\ op = "repr"
    /\ has_escapes_
    /\ Len(refs.list) > 0
    /\ Len(Rewrapped(parts)) = Len(string) - 1

=============================================================================
